---- MODULE Spec2Model ----
(***************************************************************************)
(* Key service: the lifecycle engine (issue, rotate, disable, publish,     *)
(* list), its repositories, the identifier allocator and the authorization *)
(* gate, as a state machine.                                                *)
(*                                                                         *)
(* A request is a process in a slot of Procs.  A step of a request is one  *)
(* repository call together with the local computation that follows it up  *)
(* to the next repository call; the gate and the parsing of the payload    *)
(* are local and run in the step that starts the request.  The clock is    *)
(* counted in days and may advance between any two steps.                  *)
(***************************************************************************)
EXTENDS Integers, Sequences, FiniteSets, TLC

VARIABLES backend, store, now, pc, req, loc, resp, solo, raced

vars == <<backend, store, now, pc, req, loc, resp, solo, raced>>

(***************************************************************************)
(* Bounds of the model.                                                    *)
(***************************************************************************)
NumProcs == 2
MaxRows == 2
MaxTime == 1
NumCand == 2
MaxUint == 65537

Procs == 1..NumProcs
First == CHOOSE p \in Procs : \A q \in Procs : p <= q
Times == 0..MaxTime

(***************************************************************************)
(* Optional values: Null is Python's None, Some(x) a present value.        *)
(***************************************************************************)
Null == <<>>
Some(x) == <<x>>
IsNull(v) == Len(v) = 0
Val(v) == v[1]

(***************************************************************************)
(* Configuration (config.py) and the allocator's range (helpers.py).       *)
(***************************************************************************)
DEFAULT_KEY_TYPE == "rsa"
DEFAULT_KEY_SIZE == 2048
DEFAULT_DURATION_DAYS == 90
ALLOWED_RSA_SIZES == {2048, 3072, 4096}
LIST_DEFAULT_LIMIT == 50
LIST_MAX_LIMIT == 200
DefaultAttempts == 24
KidLo == 10000000

Backends == {"sqlalchemy", "psycopg"}
DefaultBackend == "sqlalchemy"

Tenants == {"a", "b"}

\* random.randint(10_000_000, 9_999_999_999): the draws the model considers.
Candidates == KidLo .. (KidLo + NumCand - 1)

(***************************************************************************)
(* Key strategies (strategies.py).                                         *)
(***************************************************************************)
RegisteredTypes == {"rsa", "ed25519", "ec-p256"}

\* str.lower() on the key type names the model uses.
Lower(s) == CASE s = "RSA" -> "rsa" [] s = "Ed25519" -> "ed25519" [] OTHER -> s

\* key_size or default_size: Python's `or` takes the default for None and 0.
RsaSize(key_size) ==
    IF IsNull(key_size) \/ Val(key_size) = 0 THEN DEFAULT_KEY_SIZE ELSE Val(key_size)

\* Strategies that report the size hint for every key type.
GeneratePairKeepsHint(key_type, key_size) ==
    IF key_type \notin RegisteredTypes
    THEN [ok |-> FALSE, error |-> "Unsupported key_type",
          alg |-> "", curve |-> Null, key_size |-> Null]
    ELSE IF key_type = "rsa"
    THEN IF RsaSize(key_size) \notin ALLOWED_RSA_SIZES
         THEN [ok |-> FALSE, error |-> "key_size must be one of [2048, 3072, 4096]",
               alg |-> "", curve |-> Null, key_size |-> Null]
         ELSE [ok |-> TRUE, error |-> "",
               alg |-> "RS256", curve |-> Null, key_size |-> Some(RsaSize(key_size))]
    ELSE IF key_type = "ed25519"
    THEN [ok |-> TRUE, error |-> "",
          alg |-> "EdDSA", curve |-> Some("Ed25519"), key_size |-> key_size]
    ELSE [ok |-> TRUE, error |-> "",
          alg |-> "ES256", curve |-> Some("P-256"), key_size |-> key_size]

\* registry.get(name).generate_pair(key_size=...): ok = FALSE is a ValueError.
GeneratePair(key_type, key_size) ==
    IF key_type \notin RegisteredTypes
    THEN [ok |-> FALSE, error |-> "Unsupported key_type",
          alg |-> "", curve |-> Null, key_size |-> Null]
    ELSE IF key_type = "rsa"
    THEN IF RsaSize(key_size) \notin ALLOWED_RSA_SIZES
         THEN [ok |-> FALSE, error |-> "key_size must be one of [2048, 3072, 4096]",
               alg |-> "", curve |-> Null, key_size |-> Null]
         ELSE [ok |-> TRUE, error |-> "",
               alg |-> "RS256", curve |-> Null, key_size |-> Some(RsaSize(key_size))]
    ELSE IF key_type = "ed25519"
    THEN [ok |-> TRUE, error |-> "",
          alg |-> "EdDSA", curve |-> Some("Ed25519"), key_size |-> Null]
    ELSE [ok |-> TRUE, error |-> "",
          alg |-> "ES256", curve |-> Some("P-256"), key_size |-> Null]

\* The PEM texts of a generated pair, as tokens.
PrivatePem(key_type) == <<"PRIVATE KEY", key_type>>
PublicPem(key_type) == <<"PUBLIC KEY", key_type>>

\* strategy.to_jwk(public_pem, kid): the published entry of a key.
ToJwk(key_type, public_pem, kid) ==
    [kty |-> CASE key_type = "rsa" -> "RSA"
               [] key_type = "ed25519" -> "OKP"
               [] OTHER -> "EC",
     alg |-> CASE key_type = "rsa" -> "RS256"
               [] key_type = "ed25519" -> "EdDSA"
               [] OTHER -> "ES256",
     use |-> "sig",
     kid |-> ToString(kid),
     material |-> public_pem]

(***************************************************************************)
(* Credentials and the authorization gate (auth.py).                       *)
(***************************************************************************)
\* INMEM_ACCOUNTS: client_id -> client_secret, tenant_id, roles.
Accounts ==
    [creator_a |-> [client_secret |-> "sa", tenant_id |-> "a", roles |-> {"create", "view"}],
     ops_a     |-> [client_secret |-> "so", tenant_id |-> "a", roles |-> {"rotate", "disable"}],
     viewer_a  |-> [client_secret |-> "sv", tenant_id |-> "a", roles |-> {"view"}],
     admin_b   |-> [client_secret |-> "sb", tenant_id |-> "b", roles |-> {"admin"}],
     root      |-> [client_secret |-> "sr", tenant_id |-> "b", roles |-> {"admin_global"}]]

NoCreds == <<>>

\* InMemoryAuthRepository.authenticate: Null when the lookup fails.
Authenticate(client_id, client_secret) ==
    IF client_id \notin DOMAIN Accounts THEN Null
    ELSE IF Accounts[client_id].client_secret # client_secret THEN Null
    ELSE Some([tenant_id |-> Accounts[client_id].tenant_id,
               roles |-> Accounts[client_id].roles])

\* The gate with the tenant check waived for admin as it is for admin_global.
GateAdminAnyTenant(creds, path_tenant, required) ==
    IF creds = NoCreds
    THEN [status |-> 401, description |-> "Missing credentials"]
    ELSE LET principal == Authenticate(creds[1], creds[2]) IN
         IF IsNull(principal)
         THEN [status |-> 401, description |-> "Invalid credentials"]
         ELSE LET roles == Val(principal).roles
                  tenant_ok == ("admin_global" \in roles) \/ ("admin" \in roles)
                               \/ (Val(principal).tenant_id = path_tenant)
              IN IF ~tenant_ok
                 THEN [status |-> 403, description |-> "Forbidden for tenant"]
                 ELSE IF "admin" \in roles \/ "admin_global" \in roles
                         \/ (required # {} /\ roles \cap required # {})
                      THEN [status |-> 200, description |-> ""]
                      ELSE [status |-> 403, description |-> "Insufficient role"]

\* The gate without its role check.
GateNoRoleCheck(creds, path_tenant, required) ==
    IF creds = NoCreds
    THEN [status |-> 401, description |-> "Missing credentials"]
    ELSE LET principal == Authenticate(creds[1], creds[2]) IN
         IF IsNull(principal)
         THEN [status |-> 401, description |-> "Invalid credentials"]
         ELSE LET roles == Val(principal).roles
                  tenant_ok == ("admin_global" \in roles)
                               \/ (Val(principal).tenant_id = path_tenant)
              IN IF ~tenant_ok
                 THEN [status |-> 403, description |-> "Forbidden for tenant"]
                 ELSE [status |-> 200, description |-> ""]

\* make_require_roles.inner up to the call of the handler: status 200 lets
\* the handler run, otherwise abort(status, description).
Gate(creds, path_tenant, required) ==
    IF creds = NoCreds
    THEN [status |-> 401, description |-> "Missing credentials"]
    ELSE LET principal == Authenticate(creds[1], creds[2]) IN
         IF IsNull(principal)
         THEN [status |-> 401, description |-> "Invalid credentials"]
         ELSE LET roles == Val(principal).roles
                  tenant_ok == ("admin_global" \in roles)
                               \/ (Val(principal).tenant_id = path_tenant)
              IN IF ~tenant_ok
                 THEN [status |-> 403, description |-> "Forbidden for tenant"]
                 ELSE IF "admin" \in roles \/ "admin_global" \in roles
                         \/ (required # {} /\ roles \cap required # {})
                      THEN [status |-> 200, description |-> ""]
                      ELSE [status |-> 403, description |-> "Insufficient role"]

\* The roles each route declares; the key-set route has no gate.
Required(op) ==
    CASE op = "issue"   -> {"create", "admin"}
      [] op = "rotate"  -> {"rotate", "admin"}
      [] op = "disable" -> {"disable", "admin"}
      [] op = "list"    -> {"view", "admin"}
      [] OTHER          -> {}

(***************************************************************************)
(* The key_pairs table and the repository operations (repositories.py,     *)
(* repositories_psycopg.py).  A row carries its surrogate id, so the table *)
(* itself can hold two rows with one (tenant_id, key_id): only the         *)
(* uniqueness constraint checked by create keeps that from happening.      *)
(***************************************************************************)
Matching(s, tenant_id, key_id) ==
    {r \in s : r.tenant_id = tenant_id /\ r.key_id = key_id}

\* A slip in the filter: the primary key compared in place of key_id.
ExistsById(s, tenant_id, key_id) ==
    \E r \in s : r.tenant_id = tenant_id /\ r.id = key_id

\* exists(tenant_id, key_id)
Exists(s, tenant_id, key_id) == Matching(s, tenant_id, key_id) # {}

\* The table without its uniqueness constraint.
UniqueOkNoConstraint(s, kp) == TRUE

\* CONSTRAINT uq_tenant_kid UNIQUE (tenant_id, key_id): may kp be inserted?
UniqueOk(s, kp) == Matching(s, kp.tenant_id, kp.key_id) = {}

\* The row an INSERT of kp adds: the key's fields and the next serial id.
NewRow(s, kp) ==
    [id |-> Cardinality(s) + 1,
     tenant_id |-> kp.tenant_id, key_id |-> kp.key_id, key_type |-> kp.key_type,
     curve |-> kp.curve, private_key_pem |-> kp.private_key_pem,
     public_key_pem |-> kp.public_key_pem, key_size |-> kp.key_size,
     created_at |-> kp.created_at, expires_at |-> kp.expires_at,
     active |-> kp.active]

\* The filter without its key_id != exclude_key_id term.
DeactivateTargetsNoExclude(s, tenant_id, exclude_key_id, t) ==
    {r \in s : r.tenant_id = tenant_id /\ r.active /\ r.expires_at > t}

\* The filter without its expires_at > now term.
DeactivateTargetsNoExpiry(s, tenant_id, exclude_key_id, t) ==
    {r \in s : r.tenant_id = tenant_id /\ r.active /\ r.key_id # exclude_key_id}

\* The filter without its tenant_id term.
DeactivateTargetsAnyTenant(s, tenant_id, exclude_key_id, t) ==
    {r \in s : r.active /\ r.expires_at > t /\ r.key_id # exclude_key_id}

\* The rows deactivate_others(tenant_id, exclude_key_id, now) updates.
DeactivateTargets(s, tenant_id, exclude_key_id, t) ==
    {r \in s : /\ r.tenant_id = tenant_id
               /\ r.active
               /\ r.expires_at > t
               /\ r.key_id # exclude_key_id}

\* A deactivation that deletes the rows it should flag.
SetInactiveDeletes(s, rows) == s \ rows

SetInactive(s, rows) ==
    {IF r \in rows THEN [r EXCEPT !.active = FALSE] ELSE r : r \in s}

\* A deactivation whose UPDATE changes no row.
DeactivateOthersNoUpdate(s, tenant_id, exclude_key_id, t) ==
    [store |-> s, count |-> 0]

\* deactivate_others: one UPDATE statement; the new table and the row count.
DeactivateOthers(s, tenant_id, exclude_key_id, t) ==
    LET hit == DeactivateTargets(s, tenant_id, exclude_key_id, t) IN
    [store |-> SetInactive(s, hit), count |-> Cardinality(hit)]

\* ORDER BY created_at DESC over a set of rows: every order the database may
\* return (rows with equal created_at come in any order).
OrderedDesc(rows) ==
    LET n == Cardinality(rows) IN
    {q \in [1..n -> rows] :
        /\ \A i, j \in 1..n : i # j => q[i] # q[j]
        /\ \A i, j \in 1..n : i < j => q[i].created_at >= q[j].created_at}

\* The filter with expires_at >= now in place of expires_at > now.
ActiveUnexpiredInclusive(s, tenant_id, t) ==
    {r \in s : r.tenant_id = tenant_id /\ r.active /\ r.expires_at >= t}

\* The WHERE clause of get_active_unexpired(tenant_id, now).
ActiveUnexpired(s, tenant_id, t) ==
    {r \in s : r.tenant_id = tenant_id /\ r.active /\ r.expires_at > t}

\* The query without its tenant filter.
GetActiveUnexpiredAnyTenant(s, tenant_id, t) ==
    OrderedDesc({r \in s : r.active /\ r.expires_at > t})

\* get_active_unexpired(tenant_id, now): the lists it may return.
GetActiveUnexpired(s, tenant_id, t) == OrderedDesc(ActiveUnexpired(s, tenant_id, t))

\* A lookup that leaves the tenant out of its filter.
GetOneAnyTenant(s, tenant_id, key_id) == {r \in s : r.key_id = key_id}

\* get_one(tenant_id, key_id): the rows .first() / fetchone() may return.
GetOne(s, tenant_id, key_id) == Matching(s, tenant_id, key_id)

\* The filter without its term on activity.
ListFilterAnyActivity(s, tenant_id, active, include_expired, t) ==
    {r \in s : r.tenant_id = tenant_id /\ (include_expired \/ r.expires_at > t)}

\* The WHERE clause of list_keys: active is Null (no filter) or Some(bool).
ListFilter(s, tenant_id, active, include_expired, t) ==
    {r \in s : /\ r.tenant_id = tenant_id
               /\ (IsNull(active) \/ r.active = Val(active))
               /\ (include_expired \/ r.expires_at > t)}

\* OFFSET offset LIMIT limit over an ordered result, as SQLite (the default
\* DATABASE_URL) reads them: a negative offset is 0, a negative limit none.
Page(q, offset, limit) ==
    LET off == IF offset < 0 THEN 0 ELSE offset
        last == IF limit < 0 \/ off + limit > Len(q) THEN Len(q) ELSE off + limit
    IN IF off >= last THEN <<>> ELSE SubSeq(q, off + 1, last)

\* PostgreSQL refuses a negative OFFSET or LIMIT.  The psycopg repository
\* talks to PostgreSQL; the SQLAlchemy one to whatever DATABASE_URL names.
NegativePaging(offset, limit) == offset < 0 \/ limit < 0
PagingMayFail(b, offset, limit) == NegativePaging(offset, limit)
PagingMayPass(b, offset, limit) == ~NegativePaging(offset, limit) \/ b = "sqlalchemy"

(***************************************************************************)
(* Requests, local variables and responses.                                *)
(***************************************************************************)
\* A JSON key_id: an integer or something else (a string).
IntKid(k) == <<"int", k>>
StrKid(x) == <<"str", x>>
IsIntKid(v) == Len(v) = 2 /\ v[1] = "int"

NoReq ==
    [op |-> "none", tenant_id |-> "", creds |-> NoCreds, key_id |-> Null,
     duration_days |-> Null, key_type |-> Null, key_size |-> Null,
     deactivate_previous |-> FALSE, active |-> Null, include_expired |-> FALSE,
     limit |-> Null, offset |-> Null]

NoLoc == [kid |-> 0, attempts |-> 0, kp |-> Null, t |-> 0, total |-> 0]

NoResp == [status |-> 0, description |-> "", data |-> <<>>, total |-> 0]

\* flask.abort(status, description)
Abort(status, description) ==
    [status |-> status, description |-> description, data |-> <<>>, total |-> 0]

\* An exception no handler catches: Flask answers 500.
Unhandled == Abort(500, "Internal Server Error")

Ok(status, data, total) ==
    [status |-> status, description |-> "", data |-> data, total |-> total]

\* The requests of one route over the given inputs.
IssueReqs(op, tenants, creds, kids, durations, types, sizes, deacts) ==
    {[NoReq EXCEPT !.op = op, !.tenant_id = t, !.creds = c, !.key_id = k,
                   !.duration_days = d, !.key_type = kt, !.key_size = ks,
                   !.deactivate_previous = dp] :
        t \in tenants, c \in creds, k \in kids, d \in durations,
        kt \in types, ks \in sizes, dp \in deacts}

DisableReqs(tenants, creds, kids) ==
    {[NoReq EXCEPT !.op = "disable", !.tenant_id = t, !.creds = c, !.key_id = k] :
        t \in tenants, c \in creds, k \in kids}

JwksReqs(tenants) ==
    {[NoReq EXCEPT !.op = "jwks", !.tenant_id = t] : t \in tenants}

ListReqs(tenants, creds, actives, expireds, limits, offsets) ==
    {[NoReq EXCEPT !.op = "list", !.tenant_id = t, !.creds = c, !.active = a,
                   !.include_expired = ie, !.limit = l, !.offset = o] :
        t \in tenants, c \in creds, a \in actives, ie \in expireds,
        l \in limits, o \in offsets}

\* Parsing of the payload and the query string.
KeyTypeOf(r) == Lower(IF IsNull(r.key_type) THEN DEFAULT_KEY_TYPE ELSE Val(r.key_type))
DurationOf(r) == IF IsNull(r.duration_days) THEN DEFAULT_DURATION_DAYS ELSE Val(r.duration_days)
ListActive(r) == IF IsNull(r.active) THEN Null ELSE Some(Val(r.active) = "true")
ListLimit(r) ==
    LET l == IF IsNull(r.limit) THEN LIST_DEFAULT_LIMIT ELSE Val(r.limit) IN
    IF l < LIST_MAX_LIMIT THEN l ELSE LIST_MAX_LIMIT
ListOffset(r) == IF IsNull(r.offset) THEN 0 ELSE Val(r.offset)

InFlight(q) == pc[q] \notin {"idle", "done"}
Creating(q) == pc[q] \in {"exists", "alloc", "create"}

\* The handler returns: its response is out and its local variables are gone.
Finish(p, response) ==
    /\ pc' = [pc EXCEPT ![p] = "done"]
    /\ resp' = [resp EXCEPT ![p] = response]
    /\ loc' = [loc EXCEPT ![p] = NoLoc]

Goto(p, label) == pc' = [pc EXCEPT ![p] = label]

(***************************************************************************)
(* create_key, from the point where kid is known: the duration check, the  *)
(* key strategy and the KeyPair built at the current time (app.py 77-92).  *)
(***************************************************************************)
\* A key pair whose expiry is the time of its creation.
NewKeyPairNoLifetime(r, kid, meta, t) ==
    [tenant_id |-> r.tenant_id, key_id |-> kid, key_type |-> KeyTypeOf(r),
     curve |-> meta.curve, private_key_pem |-> PrivatePem(KeyTypeOf(r)),
     public_key_pem |-> PublicPem(KeyTypeOf(r)), key_size |-> meta.key_size,
     created_at |-> t, expires_at |-> t, active |-> TRUE]

NewKeyPair(r, kid, meta, t) ==
    [tenant_id |-> r.tenant_id, key_id |-> kid, key_type |-> KeyTypeOf(r),
     curve |-> meta.curve, private_key_pem |-> PrivatePem(KeyTypeOf(r)),
     public_key_pem |-> PublicPem(KeyTypeOf(r)), key_size |-> meta.key_size,
     created_at |-> t, expires_at |-> t + DurationOf(r), active |-> TRUE]

\* The JSON body of create_key's 201 response.
CreatedBody(r, kp, meta) ==
    [tenant_id |-> r.tenant_id, key_id |-> kp.key_id, key_type |-> kp.key_type,
     key_size |-> meta.key_size, curve |-> meta.curve, alg |-> meta.alg,
     created_at |-> kp.created_at, expires_at |-> kp.expires_at, active |-> kp.active]

\* Requests that wait at create for the same (tenant_id, key_id) as p is about to.
RaceWith(p, kid) ==
    {q \in Procs \ {p} : /\ pc[q] = "create"
                         /\ req[q].tenant_id = req[p].tenant_id
                         /\ loc[q].kid = kid}

\* A check that lets a duration of zero days through.
NegativeOnly(d) == d < 0

\* if duration_days <= 0: abort(400)
NonPositive(d) == d <= 0

Prepare(p, kid) ==
    LET r == req[p]
        meta == GeneratePair(KeyTypeOf(r), r.key_size)
    IN IF NonPositive(DurationOf(r))
       THEN /\ Finish(p, Abort(400, "duration_days must be positive"))
            /\ UNCHANGED raced
       ELSE IF ~meta.ok
       THEN /\ Finish(p, Abort(400, meta.error))
            /\ UNCHANGED raced
       ELSE /\ Goto(p, "create")
            /\ loc' = [loc EXCEPT ![p].kid = kid,
                                  ![p].kp = Some(NewKeyPair(r, kid, meta, now))]
            /\ raced' = [q \in Procs |->
                            IF q = p THEN RaceWith(p, kid) # {}
                            ELSE IF q \in RaceWith(p, kid) THEN TRUE ELSE raced[q]]
            /\ UNCHANGED resp

(***************************************************************************)
(* A request arrives in slot p: the gate, then the handler up to its first *)
(* repository call.                                                        *)
(***************************************************************************)
Begin(p, r) ==
    CASE r.op \in {"issue", "rotate"} ->
           IF IsNull(r.key_id)
           THEN /\ Goto(p, "alloc")
                /\ resp' = [resp EXCEPT ![p] = NoResp]
                /\ loc' = [loc EXCEPT ![p] = NoLoc]
           ELSE IF ~IsIntKid(r.key_id)
           THEN Finish(p, Abort(400, "key_id must be an integer"))
           ELSE /\ Goto(p, "exists")
                /\ resp' = [resp EXCEPT ![p] = NoResp]
                /\ loc' = [loc EXCEPT ![p] = [NoLoc EXCEPT !.kid = r.key_id[2]]]
      [] r.op = "disable" ->
           /\ Goto(p, "get_one")
           /\ resp' = [resp EXCEPT ![p] = NoResp]
           /\ loc' = [loc EXCEPT ![p] = [NoLoc EXCEPT !.kid = r.key_id[2]]]
      [] r.op = "jwks" ->
           /\ Goto(p, "jwks")
           /\ resp' = [resp EXCEPT ![p] = NoResp]
           /\ loc' = [loc EXCEPT ![p] = NoLoc]
      [] r.op = "list" ->
           /\ Goto(p, "count")
           /\ resp' = [resp EXCEPT ![p] = NoResp]
           /\ loc' = [loc EXCEPT ![p] = [NoLoc EXCEPT !.t = now]]

\* The requests that get as far as the identifier step of create_key: past
\* the gate, with key_id absent or an integer.  The table is bounded by
\* letting no more of them in than there is room for rows.
MayCreate(r) ==
    /\ r.op \in {"issue", "rotate"}
    /\ Gate(r.creds, r.tenant_id, Required(r.op)).status = 200
    /\ IsNull(r.key_id) \/ IsIntKid(r.key_id)

Start(p, R) ==
    /\ pc[p] \in {"idle", "done"}
    /\ \E r \in R :
        /\ MayCreate(r) =>
              Cardinality(store) + Cardinality({q \in Procs \ {p} : Creating(q)}) < MaxRows
        /\ req' = [req EXCEPT ![p] = r]
        /\ solo' = [q \in Procs |->
                       IF q = p THEN \A o \in Procs \ {p} : ~InFlight(o)
                       ELSE IF InFlight(q) THEN FALSE ELSE solo[q]]
        /\ LET g == IF r.op = "jwks" THEN [status |-> 200, description |-> ""]
                    ELSE Gate(r.creds, r.tenant_id, Required(r.op))
           IN IF g.status # 200
              THEN /\ Finish(p, Abort(g.status, g.description))
                   /\ raced' = [raced EXCEPT ![p] = FALSE]
              ELSE /\ Begin(p, r)
                   /\ raced' = [raced EXCEPT ![p] = FALSE]
    /\ UNCHANGED <<backend, store, now>>

(***************************************************************************)
(* create_key with an explicit key_id: the advisory existence check.       *)
(***************************************************************************)
ExistsStep(p) ==
    /\ pc[p] = "exists"
    /\ IF Exists(store, req[p].tenant_id, loc[p].kid)
       THEN /\ Finish(p, Abort(409, "A key with this key_id already exists for this tenant"))
            /\ UNCHANGED raced
       ELSE Prepare(p, loc[p].kid)
    /\ UNCHANGED <<backend, store, now, req, solo>>

(***************************************************************************)
(* generate_kid_non_colliding: one turn of its loop, a draw and a check.   *)
(***************************************************************************)
\* range(attempts) that yields one turn more than asked.
RangeDoneOffByOne(i, attempts) == i > attempts

\* for _ in range(attempts): the loop is over after i turns.
RangeDone(i, attempts) == i >= attempts

\* A test that lets every candidate through.
AcceptsAny(s, tenant_id, cand) == TRUE

\* if not exists_fn(tenant_id, cand): return cand
Accepts(s, tenant_id, cand) == ~Exists(s, tenant_id, cand)

\* loc.kid holds cand, loc.attempts the turns completed without a return.
AllocStep(p, draws) ==
    /\ pc[p] = "alloc"
    /\ ~RangeDone(loc[p].attempts, DefaultAttempts)
    /\ \E cand \in draws :
        IF Accepts(store, req[p].tenant_id, cand)
        THEN Prepare(p, cand)
        ELSE IF RangeDone(loc[p].attempts + 1, DefaultAttempts)
        THEN \* RuntimeError, which no handler catches
             /\ Finish(p, Unhandled)
             /\ UNCHANGED raced
        ELSE /\ loc' = [loc EXCEPT ![p].attempts = @ + 1, ![p].kid = cand]
             /\ UNCHANGED <<pc, resp, raced>>
    /\ UNCHANGED <<backend, store, now, req, solo>>

(***************************************************************************)
(* repo.create(kp) and the response; rotate goes on to deactivate_others.  *)
(***************************************************************************)
\* A rotation that deactivates whatever the payload says.
DeactivatePrevAlways(r) == r.op = "rotate"

\* rotate_key: deactivate_prev = bool(payload.get("deactivate_previous", False))
DeactivatePrev(r) == r.op = "rotate" /\ r.deactivate_previous

CreateStep(p) ==
    /\ pc[p] = "create"
    /\ LET kp == Val(loc[p].kp)
           r == req[p]
           meta == GeneratePair(KeyTypeOf(r), r.key_size)
       IN IF ~UniqueOk(store, kp)
          THEN /\ Finish(p, Unhandled)
               /\ UNCHANGED store
          ELSE /\ store' = store \cup {NewRow(store, kp)}
               /\ IF DeactivatePrev(r)
                  THEN /\ Goto(p, "deactivate")
                       /\ resp' = [resp EXCEPT ![p] = Ok(201, <<CreatedBody(r, kp, meta)>>, 0)]
                       /\ loc' = [loc EXCEPT ![p].kp = Null]
                  ELSE Finish(p, Ok(201, <<CreatedBody(r, kp, meta)>>, 0))
    /\ UNCHANGED <<backend, now, req, solo, raced>>

DeactivateStep(p) ==
    /\ pc[p] = "deactivate"
    /\ store' = DeactivateOthers(store, req[p].tenant_id, loc[p].kid, now).store
    /\ Finish(p, resp[p])
    /\ UNCHANGED <<backend, now, req, solo, raced>>

(***************************************************************************)
(* disable_key: get_one, then active = False and save.                     *)
(***************************************************************************)
GetOneStep(p) ==
    /\ pc[p] = "get_one"
    /\ IF GetOne(store, req[p].tenant_id, loc[p].kid) = {}
       THEN Finish(p, Abort(404, "Key not found"))
       ELSE \E row \in GetOne(store, req[p].tenant_id, loc[p].kid) :
              IF backend = "psycopg"
              THEN \* kp is a dict: kp.active = False raises AttributeError
                   Finish(p, Unhandled)
              ELSE /\ Goto(p, "save")
                   /\ loc' = [loc EXCEPT ![p].kp = Some(row)]
                   /\ UNCHANGED resp
    /\ UNCHANGED <<backend, store, now, req, solo, raced>>

\* A save that adds the object and never commits.
SaveRowNoCommit(s, row) == s

\* A save that writes the opposite of the stored flag.
SaveRowToggles(s, row) ==
    {IF r.id = row.id THEN [r EXCEPT !.active = ~r.active] ELSE r : r \in s}

\* SQLAlchemy save: the unit of work writes the changed attribute of the
\* loaded object, by primary key; an object loaded inactive has no change.
SaveRow(s, row) ==
    IF row.active
    THEN {IF r.id = row.id THEN [r EXCEPT !.active = FALSE] ELSE r : r \in s}
    ELSE s

SaveStep(p) ==
    /\ pc[p] = "save"
    /\ store' = SaveRow(store, Val(loc[p].kp))
    /\ Finish(p, Ok(200, <<[tenant_id |-> req[p].tenant_id, key_id |-> loc[p].kid,
                            active |-> FALSE]>>, 0))
    /\ UNCHANGED <<backend, now, req, solo, raced>>

(***************************************************************************)
(* jwks: the key set of a tenant.  With the psycopg repository the rows    *)
(* are dicts, and k.key_type raises AttributeError on the first row.       *)
(***************************************************************************)
JwksStep(p) ==
    /\ pc[p] = "jwks"
    /\ \E keys \in GetActiveUnexpired(store, req[p].tenant_id, now) :
          IF backend = "psycopg" /\ Len(keys) > 0
          THEN Finish(p, Unhandled)
          ELSE Finish(p, Ok(200, [i \in 1..Len(keys) |->
                                     ToJwk(keys[i].key_type, keys[i].public_key_pem,
                                           keys[i].key_id)], 0))
    /\ UNCHANGED <<backend, store, now, req, solo, raced>>

(***************************************************************************)
(* list_keys: the count query, then the page query, with the now the       *)
(* handler read before the call.                                           *)
(***************************************************************************)
\* A list item that copies every column of the row.
ListItemWithPem(r) ==
    [tenant_id |-> r.tenant_id, key_id |-> r.key_id, key_type |-> r.key_type,
     curve |-> r.curve, key_size |-> r.key_size, created_at |-> r.created_at,
     expires_at |-> r.expires_at, active |-> r.active,
     private_key_pem |-> r.private_key_pem]

ListItem(r) ==
    [tenant_id |-> r.tenant_id, key_id |-> r.key_id, key_type |-> r.key_type,
     curve |-> r.curve, key_size |-> r.key_size, created_at |-> r.created_at,
     expires_at |-> r.expires_at, active |-> r.active]

CountStep(p) ==
    /\ pc[p] = "count"
    /\ loc' = [loc EXCEPT ![p].total =
                  Cardinality(ListFilter(store, req[p].tenant_id, ListActive(req[p]),
                                         req[p].include_expired, loc[p].t))]
    /\ Goto(p, "rows")
    /\ UNCHANGED <<backend, store, now, req, resp, solo, raced>>

RowsStep(p) ==
    /\ pc[p] = "rows"
    /\ \E q \in OrderedDesc(ListFilter(store, req[p].tenant_id, ListActive(req[p]),
                                       req[p].include_expired, loc[p].t)) :
          LET rows == Page(q, ListOffset(req[p]), ListLimit(req[p])) IN
          \/ /\ PagingMayFail(backend, ListOffset(req[p]), ListLimit(req[p]))
             /\ Finish(p, Unhandled)
          \/ /\ PagingMayPass(backend, ListOffset(req[p]), ListLimit(req[p]))
             /\ IF backend = "psycopg" /\ Len(rows) > 0
                THEN Finish(p, Unhandled)
                ELSE Finish(p, Ok(200, [i \in 1..Len(rows) |-> ListItem(rows[i])],
                                  loc[p].total))
    /\ UNCHANGED <<backend, store, now, req, solo, raced>>

\* A day passes.
Tick ==
    /\ now < MaxTime
    /\ now' = now + 1
    /\ UNCHANGED <<backend, store, pc, req, loc, resp, solo, raced>>

(***************************************************************************)
(* The system: requests against one store, the default configuration.      *)
(***************************************************************************)
RootCreds == <<"root", "sr">>

\* The requests of the concurrent engine: authorized callers, explicit and
\* allocated identifiers, keys that expire within the horizon and keys that
\* do not.
EngineReqs ==
    IssueReqs("issue", {"a"}, {RootCreds}, {IntKid(1)}, {Null, Some(1)},
              {Null}, {Null}, {FALSE})
    \cup IssueReqs("issue", {"a"}, {RootCreds}, {Null}, {Null}, {Null}, {Null}, {FALSE})
    \cup IssueReqs("issue", {"b"}, {RootCreds}, {IntKid(1)}, {Null}, {Null}, {Null}, {FALSE})
    \cup IssueReqs("rotate", {"a"}, {RootCreds}, {Null, IntKid(2)}, {Null},
                   {Null}, {Null}, {TRUE})
    \cup IssueReqs("rotate", {"a"}, {RootCreds}, {IntKid(2)}, {Null},
                   {Null}, {Null}, {FALSE})
    \cup DisableReqs({"a"}, {RootCreds}, {IntKid(1)})

Init ==
    /\ backend = DefaultBackend
    /\ store = {}
    /\ now = 0
    /\ pc = [p \in Procs |-> "idle"]
    /\ req = [p \in Procs |-> NoReq]
    /\ loc = [p \in Procs |-> NoLoc]
    /\ resp = [p \in Procs |-> NoResp]
    /\ solo = [p \in Procs |-> FALSE]
    /\ raced = [p \in Procs |-> FALSE]

Next ==
    \/ \E p \in Procs : Start(p, EngineReqs)
    \/ \E p \in Procs : ExistsStep(p)
    \/ \E p \in Procs : AllocStep(p, Candidates)
    \/ \E p \in Procs : CreateStep(p)
    \/ \E p \in Procs : DeactivateStep(p)
    \/ \E p \in Procs : GetOneStep(p)
    \/ \E p \in Procs : SaveStep(p)
    \/ Tick

Spec == Init /\ [][Next]_vars

(***************************************************************************)
(* The initial state under either repository.                              *)
(***************************************************************************)
InitBackends ==
    /\ backend \in Backends
    /\ store = {}
    /\ now = 0
    /\ pc = [p \in Procs |-> "idle"]
    /\ req = [p \in Procs |-> NoReq]
    /\ loc = [p \in Procs |-> NoLoc]
    /\ resp = [p \in Procs |-> NoResp]
    /\ solo = [p \in Procs |-> FALSE]
    /\ raced = [p \in Procs |-> FALSE]

(***************************************************************************)
(* Issue and rotate only, with the clock standing still: no key is         *)
(* disabled and none expires.                                              *)
(***************************************************************************)
RotateReqs ==
    IssueReqs("issue", Tenants, {RootCreds}, {IntKid(1)}, {Null}, {Null}, {Null}, {FALSE})
    \cup IssueReqs("rotate", {"a"}, {RootCreds}, {IntKid(1), IntKid(KidLo)}, {Null},
                   {Null}, {Null}, {TRUE})

\* The first slot also takes rotations that have their identifier allocated.
AllocReqs ==
    IssueReqs("rotate", {"a"}, {RootCreds}, {Null}, {Null}, {Null}, {Null}, {TRUE})

NextRotate ==
    \/ \E p \in Procs : Start(p, IF p = First THEN RotateReqs \cup AllocReqs ELSE RotateReqs)
    \/ \E p \in Procs : ExistsStep(p)
    \/ \E p \in Procs : AllocStep(p, Candidates)
    \/ \E p \in Procs : CreateStep(p)
    \/ \E p \in Procs : DeactivateStep(p)

SpecRotate == InitBackends /\ [][NextRotate]_vars

(***************************************************************************)
(* One request at a time: a single slot serves issue, rotate, disable and  *)
(* key-set requests of both tenants, one after the other.                  *)
(***************************************************************************)
SerialReqs ==
    IssueReqs("issue", {"a"}, {RootCreds}, {IntKid(1)}, {Null, Some(1)},
              {Null}, {Null}, {FALSE})
    \cup IssueReqs("issue", {"b"}, {RootCreds}, {IntKid(1)}, {Null}, {Null}, {Null}, {FALSE})
    \cup IssueReqs("rotate", {"a"}, {RootCreds}, {Null, IntKid(2)}, {Null},
                   {Null}, {Null}, BOOLEAN)
    \cup DisableReqs({"a"}, {RootCreds}, {IntKid(1), IntKid(2)})
    \cup JwksReqs({"a"})

NextSerial ==
    \/ Start(First, SerialReqs)
    \/ ExistsStep(First)
    \/ AllocStep(First, Candidates)
    \/ CreateStep(First)
    \/ DeactivateStep(First)
    \/ GetOneStep(First)
    \/ SaveStep(First)
    \/ JwksStep(First)
    \/ Tick

SpecSerial == Init /\ [][NextSerial]_vars

(***************************************************************************)
(* The allocator at work: one slot issues and rotates keys of one tenant   *)
(* with no key_id in the payload.                                          *)
(***************************************************************************)
AutoReqs ==
    IssueReqs("issue", {"a"}, {RootCreds}, {Null}, {Null}, {Null}, {Null}, {FALSE})
    \cup AllocReqs

NextAlloc ==
    \/ Start(First, AutoReqs)
    \/ AllocStep(First, Candidates)
    \/ CreateStep(First)
    \/ DeactivateStep(First)

SpecAlloc == Init /\ [][NextAlloc]_vars

(***************************************************************************)
(* Reads beside writes: the first slot lists the keys of tenant a and       *)
(* fetches its key set while the other slots issue and rotate keys of the  *)
(* same tenant.  The clock stands still.                                   *)
(***************************************************************************)
ReadReqs ==
    ListReqs({"a"}, {RootCreds}, {Null, Some("true")}, {FALSE}, {Null}, {Null})
    \cup JwksReqs({"a"})

WriteReqs ==
    IssueReqs("issue", {"a"}, {RootCreds}, {IntKid(1)}, {Null}, {Null}, {Null}, {FALSE})
    \cup IssueReqs("rotate", {"a"}, {RootCreds}, {IntKid(2)}, {Null}, {Null}, {Null}, {TRUE})

NextRead ==
    \/ \E p \in Procs : Start(p, IF p = First THEN ReadReqs ELSE WriteReqs)
    \/ \E p \in Procs : ExistsStep(p)
    \/ \E p \in Procs : CreateStep(p)
    \/ \E p \in Procs : DeactivateStep(p)
    \/ \E p \in Procs : CountStep(p)
    \/ \E p \in Procs : RowsStep(p)
    \/ \E p \in Procs : JwksStep(p)

SpecRead == InitBackends /\ [][NextRead]_vars

(***************************************************************************)
(* Listing over seeded tables, as the list test seeds its own: an active   *)
(* key, a key that expires after a day, an inactive key created a day      *)
(* later, a key of another tenant.  One slot lists the keys of tenant a    *)
(* with every filter and a range of limits and offsets.                    *)
(***************************************************************************)
SeedRow(i, t, k, created, days, active) ==
    [id |-> i, tenant_id |-> t, key_id |-> k, key_type |-> "rsa", curve |-> Null,
     private_key_pem |-> PrivatePem("rsa"), public_key_pem |-> PublicPem("rsa"),
     key_size |-> Some(DEFAULT_KEY_SIZE), created_at |-> created,
     expires_at |-> created + days, active |-> active]

SeedRows ==
    <<SeedRow(1, "a", 1, 0, 90, TRUE),
      SeedRow(2, "a", 2, 0, 1, TRUE),
      SeedRow(3, "a", 3, 1, 30, FALSE),
      SeedRow(4, "b", 1, 0, 90, TRUE)>>

\* The tables after the first n rows were inserted.
SeedTables == {{SeedRows[i] : i \in 1..n} : n \in 0..Len(SeedRows)}

ListingReqs ==
    ListReqs({"a"}, {RootCreds}, {Null, Some("true"), Some("false")}, BOOLEAN,
             {Null, Some(1), Some(2), Some(LIST_MAX_LIMIT + 1), Some(-1)},
             {Null, Some(1), Some(-1)})

InitList ==
    /\ backend = DefaultBackend
    /\ store \in SeedTables
    /\ now \in Times
    /\ \A r \in store : r.created_at <= now
    /\ pc = [p \in Procs |-> "idle"]
    /\ req = [p \in Procs |-> NoReq]
    /\ loc = [p \in Procs |-> NoLoc]
    /\ resp = [p \in Procs |-> NoResp]
    /\ solo = [p \in Procs |-> FALSE]
    /\ raced = [p \in Procs |-> FALSE]

NextList ==
    \/ Start(First, ListingReqs)
    \/ CountStep(First)
    \/ RowsStep(First)
    \/ Tick

SpecList == InitList /\ [][NextList]_vars

(***************************************************************************)
(* Payloads of every kind: one slot issues and rotates keys of tenant a    *)
(* with key_id absent, positive, zero, negative or not an integer, with     *)
(* durations down to zero and below, and with key types and sizes that are *)
(* and are not supported.  The clock stands still.                         *)
(***************************************************************************)
PayloadKids == {Null, IntKid(1), IntKid(0), IntKid(-1), StrKid("x")}

PayloadReqs ==
    IssueReqs("issue", {"a"}, {RootCreds}, PayloadKids, {Null, Some(1), Some(0), Some(-1)},
              {Null}, {Null}, {FALSE})
    \cup IssueReqs("rotate", {"a"}, {RootCreds}, PayloadKids, {Null, Some(0), Some(-1)},
                   {Null}, {Null}, {TRUE})
    \cup IssueReqs("issue", {"a"}, {RootCreds}, {Null}, {Null},
                   {Null, Some("RSA"), Some("Ed25519"), Some("ec-p256"), Some("dsa")},
                   {Null, Some(1234), Some(0), Some(3072)}, {FALSE})

NextParams ==
    \/ Start(First, PayloadReqs)
    \/ ExistsStep(First)
    \/ AllocStep(First, Candidates)
    \/ CreateStep(First)
    \/ DeactivateStep(First)

SpecParams == Init /\ [][NextParams]_vars

(***************************************************************************)
(* Callers of every kind at the gate of every guarded route.               *)
(***************************************************************************)
AuthCreds ==
    {NoCreds, <<"creator_a", "wrong">>, <<"creator_a", "sa">>, <<"ops_a", "so">>,
     <<"viewer_a", "sv">>, <<"admin_b", "sb">>, <<"root", "sr">>}

AuthReqs ==
    IssueReqs("issue", Tenants, AuthCreds, {IntKid(1)}, {Null}, {Null}, {Null}, {FALSE})
    \cup IssueReqs("rotate", Tenants, AuthCreds, {IntKid(2)}, {Null}, {Null}, {Null}, {TRUE})
    \cup DisableReqs(Tenants, AuthCreds, {IntKid(1)})
    \cup ListReqs(Tenants, AuthCreds, {Null}, {FALSE}, {Null}, {Null})

\* A creator and a viewer of tenant a, on either tenant.
PairReqs ==
    IssueReqs("issue", Tenants, {<<"creator_a", "sa">>, <<"viewer_a", "sv">>},
              {IntKid(1)}, {Null}, {Null}, {Null}, {FALSE})

NextAuth ==
    \/ Start(First, AuthReqs)
    \/ ExistsStep(First)
    \/ CreateStep(First)
    \/ DeactivateStep(First)
    \/ GetOneStep(First)
    \/ SaveStep(First)
    \/ CountStep(First)
    \/ RowsStep(First)

SpecAuth == Init /\ [][NextAuth]_vars

\* Two callers at the gate of create_key at once.
NextAuthPair ==
    \/ \E p \in Procs : Start(p, PairReqs)
    \/ \E p \in Procs : ExistsStep(p)
    \/ \E p \in Procs : CreateStep(p)

SpecAuthPair == Init /\ [][NextAuthPair]_vars

(***************************************************************************)
(* Every route on either repository: one slot issues, rotates, disables,   *)
(* lists and fetches the key set for both tenants, with explicit           *)
(* identifiers; a rotation may ask for a lifetime of zero days.  The clock *)
(* stands still.                                                           *)
(***************************************************************************)
RouteReqs ==
    IssueReqs("issue", Tenants, {RootCreds}, {IntKid(1)}, {Null}, {Null}, {Null}, {FALSE})
    \cup IssueReqs("rotate", {"a"}, {RootCreds}, {IntKid(1), IntKid(2)}, {Null, Some(0)},
                   {Null}, {Null}, BOOLEAN)
    \cup DisableReqs(Tenants, {RootCreds}, {IntKid(1)})
    \cup ListReqs(Tenants, {RootCreds}, {Null}, {FALSE}, {Null}, {Null})
    \cup JwksReqs(Tenants)

NextRoutes ==
    \/ Start(First, RouteReqs)
    \/ ExistsStep(First)
    \/ CreateStep(First)
    \/ DeactivateStep(First)
    \/ GetOneStep(First)
    \/ SaveStep(First)
    \/ JwksStep(First)
    \/ CountStep(First)
    \/ RowsStep(First)

SpecRoutes == InitBackends /\ [][NextRoutes]_vars

(***************************************************************************)
(* The integer encoding of key-set entries (helpers.py): bytes are         *)
(* sequences of numbers below 256, text is a sequence of characters.       *)
(***************************************************************************)
\* The URL-safe base64 alphabet.
B64Alphabet ==
    <<"A", "B", "C", "D", "E", "F", "G", "H", "I", "J", "K", "L", "M", "N", "O", "P",
      "Q", "R", "S", "T", "U", "V", "W", "X", "Y", "Z", "a", "b", "c", "d", "e", "f",
      "g", "h", "i", "j", "k", "l", "m", "n", "o", "p", "q", "r", "s", "t", "u", "v",
      "w", "x", "y", "z", "0", "1", "2", "3", "4", "5", "6", "7", "8", "9", "-", "_">>

\* n.bit_length()
RECURSIVE BitLength(_)
BitLength(n) == IF n = 0 THEN 0 ELSE 1 + BitLength(n \div 2)

\* l = (n.bit_length() + 7) // 8
ByteLength(n) == (BitLength(n) + 7) \div 8

\* n.to_bytes(l, "big")
ToBytes(n, l) == [i \in 1..l |-> (n \div (256 ^ (l - i))) % 256]

\* base64.urlsafe_b64encode(data): three bytes give four characters, the
\* last group is padded with "=".
RECURSIVE UrlsafeB64Encode(_)
UrlsafeB64Encode(data) ==
    IF Len(data) = 0 THEN <<>>
    ELSE LET b1 == data[1]
             b2 == IF Len(data) >= 2 THEN data[2] ELSE 0
             b3 == IF Len(data) >= 3 THEN data[3] ELSE 0
         IN <<B64Alphabet[(b1 \div 4) + 1],
              B64Alphabet[(b1 % 4) * 16 + (b2 \div 16) + 1],
              IF Len(data) >= 2 THEN B64Alphabet[(b2 % 16) * 4 + (b3 \div 64) + 1] ELSE "=",
              IF Len(data) >= 3 THEN B64Alphabet[(b3 % 64) + 1] ELSE "=">>
            \o (IF Len(data) > 3 THEN UrlsafeB64Encode(SubSeq(data, 4, Len(data)))
                ELSE <<>>)

\* .rstrip(b"=")
RECURSIVE RStrip(_)
RStrip(text) ==
    IF Len(text) > 0 /\ text[Len(text)] = "="
    THEN RStrip(SubSeq(text, 1, Len(text) - 1))
    ELSE text

\* b64url(data)
b64url(data) == RStrip(UrlsafeB64Encode(data))

\* b64url_uint(n)
b64url_uint(n) == b64url(ToBytes(n, ByteLength(n)))

\* The numbers the encoder is applied to: every number up to the bound and
\* a few that need four bytes.
Uints == (0..MaxUint) \cup {16777215, 16777216, 2147483647}

\* A slot holds a number in loc.kid and takes the encoded text in resp.data.
InitUint ==
    /\ backend = DefaultBackend
    /\ store = {}
    /\ now = 0
    /\ pc = [p \in Procs |-> IF p = First THEN "uint" ELSE "idle"]
    /\ req = [p \in Procs |-> NoReq]
    /\ \E n \in Uints :
          loc = [p \in Procs |-> IF p = First THEN [NoLoc EXCEPT !.kid = n] ELSE NoLoc]
    /\ resp = [p \in Procs |-> NoResp]
    /\ solo = [p \in Procs |-> FALSE]
    /\ raced = [p \in Procs |-> FALSE]

UintStep(p) ==
    /\ pc[p] = "uint"
    /\ pc' = [pc EXCEPT ![p] = "done"]
    /\ resp' = [resp EXCEPT ![p] = Ok(200, b64url_uint(loc[p].kid), 0)]
    /\ UNCHANGED <<backend, store, now, req, loc, solo, raced>>

NextUint == UintStep(First)

SpecUint == InitUint /\ [][NextUint]_vars

(***************************************************************************)
(* Rotations at once: the slots rotate the keys of tenant a with           *)
(* deactivate_previous, on either repository, over a table that plain      *)
(* issues filled the day before with some active keys of the tenant.  A    *)
(* rotation names its key_id: one that may be stored already, one that     *)
(* another rotation may name as well, or one that is not an integer.  No   *)
(* other request runs and the clock stands still.                          *)
(***************************************************************************)
RotationDay == 1

IssuedBefore == [i \in 1..MaxRows |-> SeedRow(i, "a", i, 0, 90, TRUE)]

IssuedTables == {{IssuedBefore[i] : i \in 1..n} : n \in 0..MaxRows}

RotationReqs ==
    IssueReqs("rotate", {"a"}, {RootCreds},
              {IntKid(1), StrKid("x")} \cup {IntKid(k) : k \in Candidates},
              {Null}, {Null}, {Null}, {TRUE})

InitRotations ==
    /\ backend \in Backends
    /\ store \in IssuedTables
    /\ now = RotationDay
    /\ pc = [p \in Procs |-> "idle"]
    /\ req = [p \in Procs |-> NoReq]
    /\ loc = [p \in Procs |-> NoLoc]
    /\ resp = [p \in Procs |-> NoResp]
    /\ solo = [p \in Procs |-> FALSE]
    /\ raced = [p \in Procs |-> FALSE]

NextRotations ==
    \/ \E p \in Procs : Start(p, RotationReqs)
    \/ \E p \in Procs : ExistsStep(p)
    \/ \E p \in Procs : CreateStep(p)
    \/ \E p \in Procs : DeactivateStep(p)

SpecRotations == InitRotations /\ [][NextRotations]_vars

(***************************************************************************)
(* Properties.                                                             *)
(***************************************************************************)
\* What the properties say of the table, in their own words.
HasRecord(t, k) == \E r \in store : r.tenant_id = t /\ r.key_id = k
RecordsOf(t, k) == {r \in store : r.tenant_id = t /\ r.key_id = k}
Done(p) == pc[p] = "done"
Creates(p) == req[p].op \in {"issue", "rotate"}
ExplicitKid(p) == Creates(p) /\ IsIntKid(req[p].key_id)

\* C1: once issue(T, K) with an explicit key_id K has succeeded, exists(T, K)
\* is true; and an issue(T, K) whose existence check runs when (T, K) is
\* stored (every later one, as no record is ever removed) fails with 409
\* Conflict and leaves the table as it was.
C1_IssueThenConflict ==
    /\ [](\A p \in Procs :
            Done(p) /\ ExplicitKid(p) /\ resp[p].status = 201
            => Exists(store, req[p].tenant_id, req[p].key_id[2]))
    /\ [][\A p \in Procs :
            /\ pc[p] = "exists"
            /\ pc'[p] # "exists"
            /\ HasRecord(req[p].tenant_id, req[p].key_id[2])
            => /\ pc'[p] = "done"
               /\ resp'[p].status = 409
               /\ store' = store]_vars

C1_Witness ==
    \E p \in Procs :
        /\ Done(p) /\ req[p].op = "issue" /\ IsIntKid(req[p].key_id)
        /\ resp[p].status = 409
        /\ HasRecord(req[p].tenant_id, req[p].key_id[2])

\* C2: no two stored records share (tenant_id, key_id), whatever the
\* interleaving of issue and rotate requests; one key_id may be stored under
\* two tenants.
C2_UniqueTenantKey ==
    \A r1, r2 \in store :
        r1.tenant_id = r2.tenant_id /\ r1.key_id = r2.key_id => r1 = r2

C2_Witness ==
    /\ \E r1, r2 \in store : r1.key_id = r2.key_id /\ r1.tenant_id # r2.tenant_id
    /\ \E p \in Procs : Done(p) /\ raced[p] /\ resp[p].status # 201

\* C3: two issue requests for one tenant and one explicit key_id that both
\* pass the existence check before either inserts end with exactly one
\* success (201), one Conflict (409) and exactly one stored record.
C3_RaceEndsInConflict ==
    \A p, q \in Procs :
        /\ p # q /\ Done(p) /\ Done(q)
        /\ ExplicitKid(p) /\ ExplicitKid(q)
        /\ req[p].tenant_id = req[q].tenant_id
        /\ req[p].key_id = req[q].key_id
        /\ raced[p] /\ raced[q]
        => /\ {resp[p].status, resp[q].status} = {201, 409}
           /\ Cardinality(RecordsOf(req[p].tenant_id, req[p].key_id[2])) = 1

\* The active-unexpired keys of tenant t in table s at time n, as the
\* properties mean it: active = true and expires_at > n.
ActiveKeysAt(s, t, n) ==
    {r \in s : r.tenant_id = t /\ r.active = TRUE /\ r.expires_at > n}

\* C4: when a rotate with deactivate_previous = true that ran with no other
\* request in flight returns 201 for its new key B, every active-unexpired
\* key of the tenant is B, and there is exactly one as long as B itself has
\* not expired at the time of the query.
C4_RotateLeavesOnlyNew ==
    [][\A p \in Procs :
          /\ pc[p] = "deactivate"
          /\ pc'[p] = "done"
          /\ solo[p]
          => LET t == req[p].tenant_id
                 B == resp'[p].data[1].key_id
             IN /\ resp'[p].status = 201
                /\ \A r \in ActiveKeysAt(store', t, now') : r.key_id = B
                /\ (\E r \in store' :
                       r.tenant_id = t /\ r.key_id = B /\ r.expires_at > now')
                   => Cardinality(ActiveKeysAt(store', t, now')) = 1]_vars

C4_Witness ==
    \E p \in Procs :
        /\ Done(p) /\ solo[p]
        /\ req[p].op = "rotate" /\ req[p].deactivate_previous
        /\ resp[p].status = 201
        /\ \E a \in store :
              /\ a.tenant_id = req[p].tenant_id
              /\ a.key_id # resp[p].data[1].key_id
              /\ ~a.active
              /\ a.expires_at > now
        /\ \E b \in store :
              /\ b.key_id = resp[p].data[1].key_id
              /\ ActiveKeysAt(store, req[p].tenant_id, now) = {b}

\* C5: with issue and rotate requests only and no key expiring, a tenant
\* that has an active-unexpired key still has one after every step.
C5_NeverNoActiveKey ==
    [][\A t \in Tenants :
          ActiveKeysAt(store, t, now) # {} => ActiveKeysAt(store', t, now') # {}]_vars

\* C6: for every tenant and every query time, get_active_unexpired returns
\* exactly the tenant's records with active = true and expires_at > now (a
\* record with expires_at = now is left out), each once, newest created_at
\* first.
C6_ActiveUnexpiredExact ==
    \A t \in Tenants, n \in Times :
        /\ GetActiveUnexpired(store, t, n) # {}
        /\ \A q \in GetActiveUnexpired(store, t, n) :
              /\ {q[i] : i \in DOMAIN q} = ActiveKeysAt(store, t, n)
              /\ Cardinality(DOMAIN q) = Cardinality(ActiveKeysAt(store, t, n))
              /\ \A i, j \in DOMAIN q : i < j => q[i].created_at >= q[j].created_at

C6_Witness ==
    \E p \in Procs :
        /\ Done(p) /\ req[p].op = "jwks" /\ resp[p].status = 200
        /\ Len(resp[p].data) = Cardinality(ActiveKeysAt(store, req[p].tenant_id, now))
        /\ Len(resp[p].data) >= 1
        /\ \E r \in store :
              r.tenant_id = req[p].tenant_id /\ r.active /\ r.expires_at = now

\* The outcome of the gate as the properties state it.
ClaimedOutcome(r) ==
    IF r.creds = NoCreds THEN "Unauthenticated"
    ELSE IF IsNull(Authenticate(r.creds[1], r.creds[2])) THEN "Unauthenticated"
    ELSE LET principal == Val(Authenticate(r.creds[1], r.creds[2])) IN
         IF "admin_global" \notin principal.roles /\ principal.tenant_id # r.tenant_id
         THEN "Forbidden"
         ELSE IF \/ "admin" \in principal.roles
                 \/ "admin_global" \in principal.roles
                 \/ principal.roles \cap Required(r.op) # {}
         THEN "Authorized"
         ELSE "Forbidden"

\* The outcome a started request shows: 401, 403, or the handler ran.
ObservedOutcome(p) ==
    IF Done(p) /\ resp[p].status = 401 THEN "Unauthenticated"
    ELSE IF Done(p) /\ resp[p].status = 403 THEN "Forbidden"
    ELSE "Authorized"

MayChange(r, grants) ==
    /\ r.creds # NoCreds
    /\ ~IsNull(Authenticate(r.creds[1], r.creds[2]))
    /\ LET principal == Val(Authenticate(r.creds[1], r.creds[2])) IN
       /\ principal.tenant_id = r.tenant_id \/ "admin_global" \in principal.roles
       /\ principal.roles \cap (Required(r.op) \cup grants) # {}

ChangedRows == (store' \ store) \cup (store \ store')

NoDataOnRefusal ==
    \A p \in Procs :
        Done(p) /\ resp[p].status \in {401, 403}
        => resp[p].data = <<>> /\ resp[p].total = 0

RefusalLeavesStore ==
    \A p \in Procs :
        pc'[p] = "done" /\ pc[p] # pc'[p] /\ resp'[p].status \in {401, 403}
        => store' = store

ChangeOnlyBy(grants) ==
    store' # store
    => \E p \in Procs :
          /\ pc[p] \notin {"idle", "done"}
          /\ pc'[p] # pc[p]
          /\ MayChange(req[p], grants)
          /\ \A r \in ChangedRows : r.tenant_id = req[p].tenant_id

C9_ForbiddenIndistinguishable ==
    \A p, q \in Procs :
        /\ Done(p) /\ Done(q)
        /\ resp[p].status = 403 /\ resp[q].status = 403
        => resp[p] = resp[q]

\* C10: disable of a stored record (T, K) never fails: it answers 200 with
\* active = false, leaves (T, K) inactive and changes nothing else; on a
\* record that is already inactive it leaves the table as it was.
C10_DisableIdempotent ==
    [][\A p \in Procs :
          LET t == req[p].tenant_id
              k == req[p].key_id[2]
          IN /\ pc[p] = "get_one" /\ pc'[p] # "get_one" /\ HasRecord(t, k)
                => pc'[p] = "save"
             /\ pc[p] = "save" /\ pc'[p] # "save"
                => /\ pc'[p] = "done"
                   /\ resp'[p].status = 200
                   /\ resp'[p].data[1].active = FALSE
                   /\ store' = {IF r \in RecordsOf(t, k)
                                THEN [r EXCEPT !.active = FALSE] ELSE r : r \in store}
                   /\ (\A r \in RecordsOf(t, k) : ~r.active) => store' = store]_vars

C10_Witness ==
    \E p \in Procs :
        /\ pc[p] = "save"
        /\ ~Val(loc[p].kp).active
        /\ \A r \in RecordsOf(req[p].tenant_id, req[p].key_id[2]) : ~r.active

\* C11: disable(T, K) with no record (T, K) answers 404 and changes no
\* record, a record with the same K under another tenant included; with the
\* record stored, a disable changes nothing but the active flag of (T, K).
C11_DisableAbsentNotFound ==
    [][\A p \in Procs :
          LET t == req[p].tenant_id
              k == req[p].key_id[2]
          IN /\ pc[p] = "get_one" /\ pc'[p] # "get_one"
                => /\ store' = store
                   /\ ~HasRecord(t, k)
                      => pc'[p] = "done" /\ resp'[p].status = 404
             /\ pc[p] = "save" /\ pc'[p] # "save"
                => /\ \A r \in store : r \notin RecordsOf(t, k) => r \in store'
                   /\ \A r2 \in store' \ store :
                         \E r \in RecordsOf(t, k) : r2 = [r EXCEPT !.active = FALSE]
                   /\ Cardinality(store') = Cardinality(store)]_vars

C11_Witness ==
    \E p \in Procs :
        /\ Done(p) /\ req[p].op = "disable" /\ resp[p].status = 404
        /\ ~HasRecord(req[p].tenant_id, req[p].key_id[2])
        /\ \E r \in store :
              /\ r.key_id = req[p].key_id[2]
              /\ r.tenant_id # req[p].tenant_id
              /\ r.active

\* C12: the allocator returns the first drawn candidate for which exists is
\* false: every candidate it passes over exists, the one it returns does not
\* (after two collisions it is the third draw), it has called exists at most
\* 24 times, and what it returns is one of the draws, none below 10,000,000.
\* The draws are those of random.randint(10_000_000, 9_999_999_999), whose
\* upper end lies beyond the integers of the model checker.
C12_AllocateFirstFree ==
    [][\A p \in Procs :
          LET t == req[p].tenant_id IN
          /\ pc[p] = "alloc" /\ pc'[p] = "alloc" /\ loc'[p] # loc[p]
                => /\ HasRecord(t, loc'[p].kid)
                   /\ loc'[p].attempts = loc[p].attempts + 1
          /\ pc[p] = "alloc" /\ pc'[p] = "create"
                => /\ ~HasRecord(t, loc'[p].kid)
                   /\ loc'[p].attempts = loc[p].attempts
                   /\ loc[p].attempts + 1 <= 24
                   /\ loc'[p].kid \in Candidates
                   /\ loc'[p].kid >= 10000000
                   /\ Val(loc'[p].kp).key_id = loc'[p].kid]_vars

C12_Witness ==
    \E p \in Procs :
        /\ pc[p] = "create" /\ IsNull(req[p].key_id)
        /\ loc[p].attempts = 2
        /\ ~HasRecord(req[p].tenant_id, loc[p].kid)
        /\ \E r \in store : r.tenant_id = req[p].tenant_id

\* C13: the allocator's loop ends within its budget: while it runs it has
\* made fewer than 24 existence checks, each turn either returns or counts
\* one more check, and when the 24th candidate collides too it fails (the
\* request ends with an error, no identifier, nothing stored) after exactly
\* 24 checks.
C13_AllocateBounded ==
    /\ [](\A p \in Procs : pc[p] = "alloc" => loc[p].attempts < 24)
    /\ [][\A p \in Procs :
            /\ pc[p] = "alloc" /\ pc'[p] = "alloc" /\ loc'[p] # loc[p]
                  => loc'[p].attempts = loc[p].attempts + 1
            /\ pc[p] = "alloc" /\ pc'[p] = "done"
                  => /\ loc[p].attempts + 1 = 24
                     /\ resp'[p].status # 201
                     /\ resp'[p].data = <<>>
                     /\ store' = store]_vars

C13_Witness ==
    \E p \in Procs :
        /\ Done(p) /\ Creates(p) /\ IsNull(req[p].key_id)
        /\ resp[p].status = 500
        /\ \E r \in store : r.tenant_id = req[p].tenant_id

\* The key identifiers a call may name: the stored ones and one that is not.
KnownKeyIds == {r.key_id : r \in store} \cup {0}

\* C14: over every reachable table, for every tenant T, key X and time n,
\* deactivate_others(T, X, n) turns off exactly the records of T that are
\* active, have expires_at > n and key_id other than X, returns how many
\* those are (0 for none), and leaves every other record as it was: X,
\* expired records, inactive records, records of other tenants.
C14_DeactivateOthersExact ==
    \A t \in Tenants, x \in KnownKeyIds, n \in Times :
        LET res == DeactivateOthers(store, t, x, n)
            hit == {r \in store : /\ r.tenant_id = t
                                  /\ r.active = TRUE
                                  /\ r.expires_at > n
                                  /\ r.key_id # x}
        IN /\ res.count = Cardinality(hit)
           /\ res.store = (store \ hit) \cup {[r EXCEPT !.active = FALSE] : r \in hit}
           /\ \A r \in store :
                 (r.key_id = x \/ r.expires_at <= n \/ ~r.active \/ r.tenant_id # t)
                 => r \in res.store
           /\ Cardinality(res.store) = Cardinality(store)

\* A rotation at a time when the tenant's older key had expired: the older
\* key is left as it was, still flagged active.
C14_Witness ==
    \E p \in Procs :
        /\ Done(p) /\ req[p].op = "rotate" /\ req[p].deactivate_previous
        /\ resp[p].status = 201
        /\ \E old, new \in store :
              /\ old.tenant_id = req[p].tenant_id
              /\ new.tenant_id = req[p].tenant_id
              /\ new.key_id = resp[p].data[1].key_id
              /\ old.key_id # new.key_id
              /\ old.active /\ new.active
              /\ old.expires_at <= new.created_at
        /\ DeactivateOthers(store, req[p].tenant_id, 0, 0).count >= 1

\* C15: a list of the tenant's active keys that runs beside a
\* deactivate_others shows one state of the table, the one before or the one
\* after: with the default limit and offset the page holds every record the
\* total counts (here no key expires and none is disabled, so only
\* deactivate_others takes a record out of the filtered set).
C15_ListSeesOneState ==
    \A p \in Procs :
        /\ Done(p) /\ req[p].op = "list" /\ resp[p].status = 200
        /\ IsNull(req[p].limit) /\ IsNull(req[p].offset)
        => Len(resp[p].data) >= resp[p].total

\* The records of the table in every order that puts newer created_at first.
NewestFirst(rows) ==
    {q \in [1..Cardinality(rows) -> rows] :
        /\ \A r \in rows : \E i \in DOMAIN q : q[i] = r
        /\ \A i, j \in DOMAIN q : i < j => q[i].created_at >= q[j].created_at}

\* The slice [offset, offset + limit) of q.
Slice(q, offset, limit) ==
    LET avail == Len(q) - offset
        k == IF avail < 0 THEN 0 ELSE IF avail < limit THEN avail ELSE limit
    IN [i \in 1..k |-> q[offset + i]]

\* What a listed item shows of a record.
Shown(r) ==
    [tenant_id |-> r.tenant_id, key_id |-> r.key_id, key_type |-> r.key_type,
     curve |-> r.curve, key_size |-> r.key_size, created_at |-> r.created_at,
     expires_at |-> r.expires_at, active |-> r.active]

\* C16: a list with limit >= 0 and offset >= 0 answers with total = the
\* number of records of T that match the filter (no filter on activity when
\* active is absent; expires_at > now unless include_expired), whatever the
\* limit and offset, and with the slice [offset, offset + limit) of those
\* records, newest created_at first.
C16_ListFilterAndPage ==
    [][\A p \in Procs :
          pc[p] = "rows" /\ pc'[p] = "done"
          /\ ListLimit(req[p]) >= 0 /\ ListOffset(req[p]) >= 0
          => LET r == req[p]
                 match == {k \in store :
                             /\ k.tenant_id = r.tenant_id
                             /\ (IsNull(r.active) \/ k.active = (Val(r.active) = "true"))
                             /\ (r.include_expired \/ k.expires_at > loc[p].t)}
             IN /\ resp'[p].status = 200
                /\ resp'[p].total = Cardinality(match)
                /\ \E q \in NewestFirst(match) :
                      LET page == Slice(q, ListOffset(r), ListLimit(r)) IN
                      resp'[p].data = [i \in DOMAIN page |-> Shown(page[i])]]_vars

\* active=false with include_expired=true over one active-unexpired, one
\* expired-active and one inactive-unexpired record: total 1, the inactive one.
C16_Witness ==
    \E p \in Procs :
        /\ Done(p) /\ req[p].op = "list" /\ resp[p].status = 200
        /\ req[p].active = Some("false") /\ req[p].include_expired
        /\ IsNull(req[p].limit) /\ IsNull(req[p].offset)
        /\ \E x, y, z \in store :
              /\ {k \in store : k.tenant_id = req[p].tenant_id} = {x, y, z}
              /\ x.active /\ x.expires_at > now
              /\ y.active /\ y.expires_at <= now
              /\ ~z.active /\ z.expires_at > now
              /\ resp[p].total = 1
              /\ resp[p].data = <<Shown(z)>>

\* C17: whatever limit and offset a list request asks for, the limit that
\* reaches list_keys is at most the configured maximum and the offset that
\* reaches it is not negative.
C17_ListArgsValidated ==
    \A p \in Procs :
        pc[p] \in {"count", "rows"}
        => /\ ListLimit(req[p]) <= LIST_MAX_LIMIT
           /\ ListOffset(req[p]) >= 0

\* An issue or rotate request that names a duration of zero days or less.
BadDuration(p) ==
    Creates(p) /\ ~IsNull(req[p].duration_days) /\ Val(req[p].duration_days) <= 0

\* C18, as stated: issue and rotate with duration_days <= 0 fail with
\* InvalidParameter (400) and store nothing, the identifier explicit or not.
C18_AsStated ==
    \A p \in Procs :
        BadDuration(p)
        => /\ pc[p] \notin {"create", "deactivate"}
           /\ Done(p) => resp[p].status = 400

\* C18, amended: issue and rotate with duration_days <= 0 store nothing and
\* fail: with 400 whenever the identifier step before the duration check
\* passes (the explicit key_id is not stored, or the allocator returns), with
\* 400 for a key_id that is not an integer, with 409 when the explicit key_id
\* is already stored, and otherwise with the allocator's own failure after
\* its 24th collision.
C18_BadDurationRejected ==
    /\ [](\A p \in Procs :
            BadDuration(p)
            => /\ pc[p] \notin {"create", "deactivate"}
               /\ Done(p) => resp[p].status # 201
               /\ Done(p) /\ ~IsNull(req[p].key_id) /\ ~IsIntKid(req[p].key_id)
                  => resp[p].status = 400)
    /\ [][\A p \in Procs :
            BadDuration(p)
            => /\ pc[p] \in {"exists", "alloc"} => store' = store
               /\ pc[p] = "exists" /\ pc'[p] # "exists"
                  => /\ pc'[p] = "done"
                     /\ resp'[p].status =
                           IF HasRecord(req[p].tenant_id, req[p].key_id[2]) THEN 409 ELSE 400
               /\ pc[p] = "alloc" /\ pc'[p] # "alloc"
                  => /\ pc'[p] = "done"
                     /\ \/ resp'[p].status = 400
                        \/ loc[p].attempts + 1 = 24 /\ resp'[p].status # 201]_vars

C18_Witness ==
    \E p \in Procs :
        /\ Done(p) /\ BadDuration(p) /\ req[p].op = "rotate"
        /\ IsNull(req[p].key_id)
        /\ resp[p].status = 400
        /\ \E r \in store : r.tenant_id = req[p].tenant_id /\ r.active

\* C19: every stored key_id is a positive integer (an issue with a key_id
\* that is zero, negative or not an integer is rejected and stores nothing).
C19_StoredKeyIdsPositive ==
    \A r \in store : r.key_id > 0

\* C20: an issue for RSA keys with a key_size outside {2048, 3072, 4096},
\* like an issue for a key type that is not registered, does not succeed:
\* it ends without a 201.
C20_BadTypeOrSizeRejected ==
    \A p \in Procs :
        /\ Done(p) /\ Creates(p)
        /\ \/ KeyTypeOf(req[p]) \notin {"rsa", "ed25519", "ec-p256"}
           \/ /\ KeyTypeOf(req[p]) = "rsa"
              /\ ~IsNull(req[p].key_size)
              /\ Val(req[p].key_size) \notin {2048, 3072, 4096}
        => resp[p].status # 201

\* C21: the key set of tenant T is served without credentials and holds one
\* entry for each record of T that is active and unexpired when it is
\* fetched, with kid the record's key_id as a string and use = sig; it is
\* empty when T has no such record, and holds nothing for a key of another
\* tenant, a disabled key or an expired key.
C21_KeySetExact ==
    [][\A p \in Procs :
          pc[p] = "jwks" /\ pc'[p] = "done"
          => LET live == ActiveKeysAt(store, req[p].tenant_id, now)
                 keys == resp'[p].data
             IN /\ req[p].creds = NoCreds
                /\ resp'[p].status = 200
                /\ Len(keys) = Cardinality(live)
                /\ {keys[i].kid : i \in DOMAIN keys} = {ToString(r.key_id) : r \in live}
                /\ \A i \in DOMAIN keys : keys[i].use = "sig"]_vars

C21_Witness ==
    \E p \in Procs :
        /\ Done(p) /\ req[p].op = "jwks" /\ req[p].creds = NoCreds
        /\ resp[p].status = 200
        /\ \E r \in store :
              /\ r.tenant_id = req[p].tenant_id /\ r.active /\ r.expires_at > now
              /\ {resp[p].data[i].kid : i \in DOMAIN resp[p].data} = {ToString(r.key_id)}
        /\ \E o \in store :
              o.tenant_id # req[p].tenant_id /\ o.active /\ o.expires_at > now

\* C22: a stored record stays stored and keeps every field but active: each
\* step leaves each record in the table, the same in all fields except
\* possibly active, so the set of stored (tenant_id, key_id) pairs only
\* grows.
C22_OnlyActiveChanges ==
    [][/\ \A r \in store :
             \E r2 \in store' : r2 = [r EXCEPT !.active = r2.active]
       /\ {<<r.tenant_id, r.key_id>> : r \in store}
             \subseteq {<<r.tenant_id, r.key_id>> : r \in store'}]_vars

\* A key that was disabled after a second key was created beside it.
C22_Witness ==
    /\ Cardinality(store) >= 2
    /\ \E p \in Procs :
          /\ Done(p) /\ req[p].op = "disable" /\ resp[p].status = 200
          /\ \E r \in RecordsOf(req[p].tenant_id, req[p].key_id[2]) :
                /\ ~r.active
                /\ r.expires_at > r.created_at
                /\ r.key_type = "rsa"

\* The duration the payload asks for, 90 days when it names none.
AskedDays(r) == IF IsNull(r.duration_days) THEN 90 ELSE Val(r.duration_days)

\* C23: a record enters the table active, with expires_at = created_at +
\* duration_days of the request that created it and duration_days > 0; so
\* expires_at > created_at for every stored record.
C23_ExpiryAfterCreation ==
    /\ [](\A r \in store : r.expires_at > r.created_at)
    /\ [][\A r \in store' :
            ~HasRecord(r.tenant_id, r.key_id)
            => \E p \in Procs :
               /\ pc[p] = "create" /\ pc'[p] # "create"
               /\ r.tenant_id = req[p].tenant_id
               /\ r.active = TRUE
               /\ AskedDays(req[p]) > 0
               /\ r.expires_at = r.created_at + AskedDays(req[p])]_vars

C23_Witness ==
    \E p \in Procs :
        /\ Done(p) /\ Creates(p) /\ resp[p].status = 201
        /\ req[p].duration_days = Some(1)
        /\ \E r \in store :
              /\ r.key_id = resp[p].data[1].key_id
              /\ r.expires_at = r.created_at + 1
        /\ \E r \in store : r.expires_at = r.created_at + 90

\* C24: a stored RSA record has a key_size out of {2048, 3072, 4096}; it is
\* 2048, answered with alg RS256, when the request names no key_size; a
\* stored Ed25519 or EC-P256 record has no key_size, whatever the request
\* named.
C24_KeySizeByAlgorithm ==
    /\ [](\A r \in store :
            /\ r.key_type = "rsa"
               => ~IsNull(r.key_size) /\ Val(r.key_size) \in {2048, 3072, 4096}
            /\ r.key_type \in {"ed25519", "ec-p256"} => IsNull(r.key_size))
    /\ [][\A p \in Procs :
            /\ pc[p] = "create" /\ pc'[p] = "done" /\ resp'[p].status = 201
            /\ KeyTypeOf(req[p]) = "rsa" /\ IsNull(req[p].key_size)
            => /\ resp'[p].data[1].key_size = Some(2048)
               /\ resp'[p].data[1].alg = "RS256"
               /\ \E r \in store' \ store : r.key_size = Some(2048)]_vars

C24_Witness ==
    \E p \in Procs :
        /\ Done(p) /\ Creates(p) /\ resp[p].status = 201
        /\ KeyTypeOf(req[p]) \in {"ed25519", "ec-p256"}
        /\ req[p].key_size = Some(3072)
        /\ \E r \in RecordsOf(req[p].tenant_id, resp[p].data[1].key_id) :
              IsNull(r.key_size) /\ ~IsNull(r.curve)
        /\ \E r \in store : r.key_type = "rsa" /\ r.key_size = Some(2048)

\* C25: every failure reaches the caller as one of the declared error kinds,
\* raised by the engine itself; no request, an issue whose allocator runs out
\* of attempts included, ends in the server's answer to an exception that
\* nothing caught (500 Internal Server Error).
C25_FailuresAreDeclared ==
    \A p \in Procs :
        Done(p) => ~(resp[p].status = 500 /\ resp[p].description = "Internal Server Error")

\* C26: no response carries a record's private material: no entry of any
\* response body (the 201 body of issue and rotate, the body of disable, a
\* list item, a key-set entry) has a private_key_pem field, and the key
\* material of a key-set entry is the public text of a stored record.
C26_NoPrivateMaterial ==
    \A p \in Procs : \A i \in DOMAIN resp[p].data :
        LET d == resp[p].data[i] IN
        /\ "private_key_pem" \notin DOMAIN d
        /\ "material" \in DOMAIN d =>
              /\ d.material \in {r.public_key_pem : r \in store}
              /\ d.material \notin {r.private_key_pem : r \in store}

\* A listing that shows the two stored keys of a tenant.
C26_Witness ==
    \E p \in Procs :
        /\ Done(p) /\ req[p].op = "list" /\ resp[p].status = 200
        /\ Len(resp[p].data) = 2
        /\ \A r \in store : r.private_key_pem = PrivatePem(r.key_type)

\* C27: the engine behaves the same on the psycopg repository as on the
\* SQLAlchemy repository.  On the SQLAlchemy repository a disable of a
\* stored record answers 200 and the record is persisted with active false,
\* and a key-set or list request is answered 200; so the same holds
\* whichever repository is configured.
C27_BackendsAgree ==
    \A p \in Procs :
        Done(p) =>
            /\ req[p].op = "disable" /\ HasRecord(req[p].tenant_id, req[p].key_id[2]) =>
                  /\ resp[p].status = 200
                  /\ \A r \in RecordsOf(req[p].tenant_id, req[p].key_id[2]) : ~r.active
            /\ req[p].op \in {"jwks", "list"} => resp[p].status = 200

\* Decoding, as a reader of the key set does it: the padding is put back,
\* four characters give three bytes, and the bytes are read big-endian.
B64Index(c) == (CHOOSE i \in 1..64 : B64Alphabet[i] = c) - 1

Padded(text) == text \o [i \in 1..((4 - (Len(text) % 4)) % 4) |-> "="]

RECURSIVE UrlsafeB64Decode(_)
UrlsafeB64Decode(text) ==
    IF Len(text) < 4 THEN <<>>
    ELSE LET v(i) == IF text[i] = "=" THEN 0 ELSE B64Index(text[i])
             three == <<v(1) * 4 + (v(2) \div 16),
                        (v(2) % 16) * 16 + (v(3) \div 4),
                        (v(3) % 4) * 64 + v(4)>>
             n == IF text[3] = "=" THEN 1 ELSE IF text[4] = "=" THEN 2 ELSE 3
         IN SubSeq(three, 1, n) \o UrlsafeB64Decode(SubSeq(text, 5, Len(text)))

RECURSIVE FromBytes(_)
FromBytes(bytes) ==
    IF Len(bytes) = 0 THEN 0
    ELSE FromBytes(SubSeq(bytes, 1, Len(bytes) - 1)) * 256 + bytes[Len(bytes)]

Encoded(p) == pc[p] = "done" /\ req[p] = NoReq

\* C28: for every number n of the range, the text b64url_uint(n) decodes to
\* n, holds no "=", and its bytes are the minimal big-endian sequence: no
\* leading zero byte when n is not zero, the single byte zero when n is
\* zero; 65537 is encoded as AQAB.
C28_UintEncoding ==
    \A p \in Procs :
        Encoded(p) =>
            LET n == loc[p].kid
                text == resp[p].data
                bytes == UrlsafeB64Decode(Padded(text))
            IN /\ FromBytes(bytes) = n
               /\ \A i \in DOMAIN text : text[i] # "="
               /\ n # 0 => Len(bytes) > 0 /\ bytes[1] # 0
               /\ n = 0 => bytes = <<0>>
               /\ n = 65537 => text = <<"A", "Q", "A", "B">>

\* The stored records whose active flag a step changes, or that it removes.
Flipped ==
    {r \in store : \A r2 \in store' : r2.id = r.id => r2.active # r.active}

\* C29: a step of a rotate request changes the active flag of an existing
\* record only when deactivate_previous is true and the request's issue
\* step has succeeded (its key is stored and its answer is 201), and the
\* records changed are other keys of the tenant, never the key just
\* created; a rotate that ends in 409 or 400 has changed none.
C29_RotateDeactivation ==
    [][\A p \in Procs :
          (InFlight(p) /\ pc'[p] # pc[p] /\ req[p].op = "rotate") =>
              /\ Flipped # {} =>
                    /\ req[p].deactivate_previous
                    /\ resp[p].status = 201
                    /\ HasRecord(req[p].tenant_id, loc[p].kid)
                    /\ \A r \in Flipped :
                          r.tenant_id = req[p].tenant_id /\ r.key_id # loc[p].kid
              /\ (pc'[p] = "done" /\ resp'[p].status = 201) =>
                    \E r \in store' :
                        /\ r.tenant_id = req[p].tenant_id
                        /\ r.key_id = loc[p].kid
                        /\ r.active
              /\ (pc'[p] = "done" /\ resp'[p].status # 201) =>
                    \A r \in store : \E r2 \in store' : r2 = r]_vars

\* A rotation with deactivate_previous that was refused as a conflict and
\* left the active key of the tenant active.
C29_Witness ==
    \E p \in Procs :
        /\ Done(p) /\ req[p].op = "rotate" /\ req[p].deactivate_previous
        /\ resp[p].status = 409
        /\ \E r \in RecordsOf(req[p].tenant_id, req[p].key_id[2]) : r.active

\* The records of tenant t, and those of every other tenant.
OwnRecords(s, t) == {r \in s : r.tenant_id = t}
ForeignRecords(s, t) == {r \in s : r.tenant_id # t}

\* What the step of a request reads from the table is the same when the
\* table holds the records of its tenant alone.
ReadsOwnRecordsOnly(p) ==
    LET t == req[p].tenant_id
        own == OwnRecords(store, t)
    IN /\ pc[p] = "exists" => Exists(store, t, loc[p].kid) = Exists(own, t, loc[p].kid)
       /\ pc[p] = "create" => UniqueOk(store, Val(loc[p].kp)) = UniqueOk(own, Val(loc[p].kp))
       /\ pc[p] = "deactivate" =>
             DeactivateTargets(store, t, loc[p].kid, now)
                = DeactivateTargets(own, t, loc[p].kid, now)
       /\ pc[p] = "get_one" => GetOne(store, t, loc[p].kid) = GetOne(own, t, loc[p].kid)
       /\ pc[p] = "save" => Val(loc[p].kp) \in own
       /\ pc[p] = "jwks" => GetActiveUnexpired(store, t, now) = GetActiveUnexpired(own, t, now)
       /\ pc[p] \in {"count", "rows"} =>
             ListFilter(store, t, ListActive(req[p]), req[p].include_expired, loc[p].t)
                = ListFilter(own, t, ListActive(req[p]), req[p].include_expired, loc[p].t)

\* C30: a step of a request scoped to tenant T (the request that arrives
\* with the step, or the one in flight) leaves the records of every other
\* tenant as they are, and what it reads, hence what it answers, is read
\* from the records of T alone.
C30_TenantIsolation ==
    [][\A p \in Procs :
          pc'[p] # pc[p] =>
              LET t == IF InFlight(p) THEN req[p].tenant_id ELSE req'[p].tenant_id IN
              /\ ForeignRecords(store', t) = ForeignRecords(store, t)
              /\ InFlight(p) => ReadsOwnRecordsOnly(p)]_vars

\* A rotation of tenant a with deactivate_previous has finished and the key
\* of tenant b is stored and active.
C30_Witness ==
    \E p \in Procs :
        /\ Done(p) /\ req[p].op = "rotate" /\ req[p].deactivate_previous
        /\ req[p].tenant_id = "a" /\ resp[p].status = 201
        /\ \E r \in store : r.tenant_id = "b" /\ r.active /\ r.expires_at > now

\* The stored records a key set fetched at time t may show.
Publishable(s, t) == {r \in s : r.active /\ r.expires_at > t}

\* C31: a key never comes back.  In every step, the clock going forward or
\* not, the active flag of a stored record changes from true to false if at
\* all, a stored record that the key set would not show before the step is
\* not shown after it, and a key set that is answered holds only keys that
\* the key set would show before the step; so a key that was absent from
\* one key set after its creation is in no later one.
C31_KeyNeverComesBack ==
    [][/\ now' >= now
       /\ \A r \in store : \A r2 \in store' :
             r2.id = r.id =>
                 /\ r2.active => r.active
                 /\ r2 \in Publishable(store', now') => r \in Publishable(store, now)
       /\ \A p \in Procs :
             (pc[p] = "jwks" /\ pc'[p] = "done") =>
                 \A i \in DOMAIN resp'[p].data :
                     \E r \in Publishable(store, now) :
                         /\ r.tenant_id = req[p].tenant_id
                         /\ ToString(r.key_id) = resp'[p].data[i].kid]_vars

\* A key set that shows one key of the tenant while another key of the
\* tenant, disabled or deactivated or expired, is stored and left out.
C31_Witness ==
    \E p \in Procs :
        /\ Done(p) /\ req[p].op = "jwks" /\ resp[p].status = 200
        /\ Len(resp[p].data) = 1
        /\ \E r \in store \ Publishable(store, now) :
              /\ r.tenant_id = req[p].tenant_id
              /\ ToString(r.key_id) # resp[p].data[1].kid

\* Every rotation has returned, and one at least was made.
AllReturned == (\A p \in Procs : ~InFlight(p)) /\ (\E p \in Procs : Done(p))

\* The keys of tenant t created by the rotations of the day.
RotatedIn(t) == {r \in OwnRecords(store, t) : r.created_at = RotationDay}

\* C32, as stated: once the concurrent rotations of a tenant with
\* deactivate_previous have all returned, at most one key of the tenant is
\* active and unexpired.
C32_AsStated ==
    AllReturned => Cardinality(Publishable(OwnRecords(store, "a"), now)) <= 1

\* C32, amended: once the concurrent rotations of a tenant with
\* deactivate_previous have all returned, and one of them at least has
\* succeeded, at most one key of the tenant is active and unexpired,
\* whatever the interleaving; when none has succeeded, every key the tenant
\* had is as active as it was.
C32_AtMostOneAfterRotations ==
    AllReturned =>
        /\ RotatedIn("a") # {} => Cardinality(Publishable(OwnRecords(store, "a"), now)) <= 1
        /\ RotatedIn("a") = {} => \A r \in OwnRecords(store, "a") : r.active

\* Two rotations have both answered 201, each having deactivated the key of
\* the other: both keys are stored and neither is active.
C32_Witness ==
    /\ AllReturned
    /\ \A p \in Procs : Done(p) /\ resp[p].status = 201
    /\ Cardinality(RotatedIn("a")) = 2
    /\ Publishable(OwnRecords(store, "a"), now) = {}

====
